---- MODULE Spec2Model ----
(***************************************************************************)
(* Model of streamlit_app.py: a Streamlit front end with three sections    *)
(* (training status, training, prediction) over a remote HTTP API.         *)
(*                                                                         *)
(* One step of the model is one run of the script (main): Streamlit        *)
(* re-runs the whole script after each widget edit and each button click;  *)
(* at most one button reads True in a run.  The remote service is the      *)
(* environment: each request gets a nondeterministic response.             *)
(*                                                                         *)
(* Text is a sequence of one-character strings, so that split / strip /    *)
(* float are computed character by character as Python computes them.      *)
(***************************************************************************)
EXTENDS Integers, Sequences, FiniteSets, TLC

VARIABLES
    session_state,     \* st.session_state restricted to the key "job_id"
    job_id_default,    \* value= passed to the Job ID text_input at its last render
    job_id_input,      \* content of the Job ID text_input
    opcao,             \* st.radio of the prediction section
    start_date_pred,   \* st.date_input "start_pred" (None or a date)
    end_date_pred,     \* st.date_input "end_pred" (None or a date)
    prices_text,       \* st.text_area of the manual mode
    tokens,            \* history: the tokens prices_text was typed from
    clicked,           \* the button that read True in the last run
    resp,              \* the remote outcome consumed by the last run
    requests_sent,     \* HTTP requests issued during the last run, in order
    data,              \* what the gateway function returned in the last run
    validado,          \* what validar_precos_manuais returned in the last run
    rendered,          \* st.warning/info/success/error/write/json/metric calls of the last run
    raised,            \* exception that left main() in the last run ("" if none)
    last_trained       \* history: job_id of the latest 200 training response that had one

vars == <<session_state, job_id_default, job_id_input, opcao, start_date_pred,
          end_date_pred, prices_text, tokens, clicked, resp, requests_sent,
          data, validado, rendered, raised, last_trained>>

-----------------------------------------------------------------------------
(* Bounds of the model *)

\* manual-price inputs have 1..MaxFew tokens, or 60-MaxOff..60+MaxOff tokens
MaxFew == 2
MaxOff == 1

-----------------------------------------------------------------------------
(* Constants of the program *)

NUM_PRECOS_OBRIGATORIOS == 60

TRAIN_ENDPOINT == "/train"
STATUS_ENDPOINT == "/train/status"
PREDICT_ENDPOINT == "/predict"

MODO_AUTO == "Busca automatica (simbolo)"
MODO_MANUAL == "Dados manuais (ultimos 60 precos)"

-----------------------------------------------------------------------------
(* Python strings and floats *)

Whitespace == {" ", "\n"}
Digits == {"0", "1", "2", "3", "4", "5", "6", "7", "8", "9"}

DigitVal(c) ==
    CASE c = "0" -> 0 [] c = "1" -> 1 [] c = "2" -> 2 [] c = "3" -> 3
      [] c = "4" -> 4 [] c = "5" -> 5 [] c = "6" -> 6 [] c = "7" -> 7
      [] c = "8" -> 8 [] c = "9" -> 9

\* str.split(sep): one more token than there are separators ("" gives [""]);
\* token k lies between separator k-1 and separator k
str_split(s, sep) ==
    LET Cut(at) ==
            [k \in 1..(Len(at) + 1) |->
                SubSeq(s, IF k = 1 THEN 1 ELSE at[k - 1] + 1,
                          IF k > Len(at) THEN Len(s) ELSE at[k] - 1)]
    IN  \* the positions of the separators, in order
        CHOOSE toks \in { Cut(at) : at \in { SelectSeq([i \in 1..Len(s) |-> i],
                                                       LAMBDA i : s[i] = sep) } } : TRUE

\* str.strip(): leading and trailing whitespace removed
str_strip(s) ==
    LET keep == {i \in 1..Len(s) : s[i] \notin Whitespace}
    IN  IF keep = {} THEN <<>>
        ELSE LET lo == CHOOSE i \in keep : \A j \in keep : i <= j
                 hi == CHOOSE i \in keep : \A j \in keep : j <= i
             IN  SubSeq(s, lo, hi)

RECURSIVE DecimalValue(_)
DecimalValue(ds) ==
    IF ds = <<>> THEN 0
    ELSE 10 * DecimalValue(SubSeq(ds, 1, Len(ds) - 1)) + DigitVal(ds[Len(ds)])

RECURSIVE Normalise(_, _)
\* mant / 10^exp with no trailing zero decimals: 2.50 and 2.5 are one float
Normalise(mant, exp) ==
    IF exp > 0 /\ mant % 10 = 0 THEN Normalise(mant \div 10, exp - 1)
    ELSE [mant |-> mant, exp |-> exp]

NoFloat == [neg |-> FALSE, mant |-> 0, exp |-> 0]

\* float(s) on a string of signs, digits, points, whitespace and letters other
\* than those of inf / nan / exponents: ok = FALSE stands for ValueError
float(s) ==
    LET t == str_strip(s)
        signed == Len(t) > 0 /\ t[1] \in {"+", "-"}
        body == IF signed THEN Tail(t) ELSE t
        dots == {i \in 1..Len(body) : body[i] = "."}
        digs == SelectSeq(body, LAMBDA c : c \in Digits)
        wellformed == /\ \A i \in 1..Len(body) : body[i] \in Digits \cup {"."}
                      /\ Cardinality(dots) <= 1
                      /\ Len(digs) >= 1
    IN  IF ~wellformed THEN [ok |-> FALSE, val |-> NoFloat]
        ELSE LET exp == IF dots = {} THEN 0
                        ELSE Len(body) - (CHOOSE i \in dots : TRUE)
                 n == Normalise(DecimalValue(digs), exp)
             IN  [ok |-> TRUE,
                  val |-> [neg |-> signed /\ t[1] = "-", mant |-> n.mant, exp |-> n.exp]]

-----------------------------------------------------------------------------
(* Streamlit output calls: fn is the function that made the call *)

Msg(fn, tipo, msg, args) == [fn |-> fn, tipo |-> tipo, msg |-> msg, args |-> args]

None == [isNone |-> TRUE, val |-> <<>>]
Some(v) == [isNone |-> FALSE, val |-> v]

-----------------------------------------------------------------------------
(* validar_precos_manuais *)

\* Faulty variants, which the properties below must tell from the function:
\* the list returned in reverse order,
validar_sem_ordem(text) ==
    LET Numeric == Msg("validar_precos_manuais", "error",
                       "Todos os valores devem ser numericos.", <<>>)
        Count(n) == Msg("validar_precos_manuais", "error",
                        "E necessario informar exatamente N valores. Voce forneceu M.",
                        <<NUM_PRECOS_OBRIGATORIOS, n>>)
        Check(parsed) ==
            IF \E i \in 1..Len(parsed) : ~parsed[i].ok
            THEN [ret |-> None, msgs |-> <<Numeric>>]
            ELSE IF Len(parsed) # NUM_PRECOS_OBRIGATORIOS
            THEN [ret |-> None, msgs |-> <<Count(Len(parsed))>>]
            ELSE [ret |-> Some([i \in 1..Len(parsed) |-> parsed[Len(parsed) + 1 - i].val]), msgs |-> <<>>]
    IN  CHOOSE out \in { Check([i \in 1..Len(toks) |-> float(str_strip(toks[i]))]) :
                          toks \in {str_split(text, ",")} } : TRUE

\* the count tested with < instead of !=,
validar_minimo(text) ==
    LET Numeric == Msg("validar_precos_manuais", "error",
                       "Todos os valores devem ser numericos.", <<>>)
        Count(n) == Msg("validar_precos_manuais", "error",
                        "E necessario informar exatamente N valores. Voce forneceu M.",
                        <<NUM_PRECOS_OBRIGATORIOS, n>>)
        Check(parsed) ==
            IF \E i \in 1..Len(parsed) : ~parsed[i].ok
            THEN [ret |-> None, msgs |-> <<Numeric>>]
            ELSE IF Len(parsed) < NUM_PRECOS_OBRIGATORIOS
            THEN [ret |-> None, msgs |-> <<Count(Len(parsed))>>]
            ELSE [ret |-> Some([i \in 1..Len(parsed) |-> parsed[i].val]), msgs |-> <<>>]
    IN  CHOOSE out \in { Check([i \in 1..Len(toks) |-> float(str_strip(toks[i]))]) :
                          toks \in {str_split(text, ",")} } : TRUE

\* the count tested before the tokens are parsed.
validar_conta_antes(text) ==
    LET Numeric == Msg("validar_precos_manuais", "error",
                       "Todos os valores devem ser numericos.", <<>>)
        Count(n) == Msg("validar_precos_manuais", "error",
                        "E necessario informar exatamente N valores. Voce forneceu M.",
                        <<NUM_PRECOS_OBRIGATORIOS, n>>)
        Check(parsed) ==
            IF Len(parsed) # NUM_PRECOS_OBRIGATORIOS
            THEN [ret |-> None, msgs |-> <<Count(Len(parsed))>>]
            ELSE IF \E i \in 1..Len(parsed) : ~parsed[i].ok
            THEN [ret |-> None, msgs |-> <<Numeric>>]
            ELSE [ret |-> Some([i \in 1..Len(parsed) |-> parsed[i].val]), msgs |-> <<>>]
    IN  CHOOSE out \in { Check([i \in 1..Len(toks) |-> float(str_strip(toks[i]))]) :
                          toks \in {str_split(text, ",")} } : TRUE

\* The list comprehension parses every token first: a ValueError of any token
\* leaves the try block before the count is looked at.
validar_precos_manuais(text) ==
    LET Numeric == Msg("validar_precos_manuais", "error",
                       "Todos os valores devem ser numericos.", <<>>)
        Count(n) == Msg("validar_precos_manuais", "error",
                        "E necessario informar exatamente N valores. Voce forneceu M.",
                        <<NUM_PRECOS_OBRIGATORIOS, n>>)
        Check(parsed) ==
            IF \E i \in 1..Len(parsed) : ~parsed[i].ok
            THEN [ret |-> None, msgs |-> <<Numeric>>]
            ELSE IF Len(parsed) # NUM_PRECOS_OBRIGATORIOS
            THEN [ret |-> None, msgs |-> <<Count(Len(parsed))>>]
            ELSE [ret |-> Some([i \in 1..Len(parsed) |-> parsed[i].val]), msgs |-> <<>>]
    IN  CHOOSE out \in { Check([i \in 1..Len(toks) |-> float(str_strip(toks[i]))]) :
                          toks \in {str_split(text, ",")} } : TRUE

-----------------------------------------------------------------------------
(* Inputs of the manual mode: tokens with the float Python gives each *)

F(neg, mant, exp) == [neg |-> neg, mant |-> mant, exp |-> exp]
Tok(s, ok, val) == [s |-> s, ok |-> ok, val |-> val]

NumericTokens ==
    { Tok(<<"1">>, TRUE, F(FALSE, 1, 0)),
      Tok(<<"2">>, TRUE, F(FALSE, 2, 0)),
      Tok(<<" ", "2", ".", "5", "0">>, TRUE, F(FALSE, 25, 1)),
      Tok(<<"-", "3">>, TRUE, F(TRUE, 3, 0)),
      Tok(<<"7", ".">>, TRUE, F(FALSE, 7, 0)),
      Tok(<<".", "5">>, TRUE, F(FALSE, 5, 1)),
      Tok(<<"+", "4", "\n">>, TRUE, F(FALSE, 4, 0)),
      Tok(<<"1", "0">>, TRUE, F(FALSE, 10, 0)) }

BadTokens ==
    { Tok(<<>>, FALSE, NoFloat),
      Tok(<<" ">>, FALSE, NoFloat),
      Tok(<<"a", "b", "c">>, FALSE, NoFloat),
      Tok(<<"1", " ", "2">>, FALSE, NoFloat),
      Tok(<<".">>, FALSE, NoFloat),
      Tok(<<"-">>, FALSE, NoFloat),
      Tok(<<"1", ".", "2", ".", "3">>, FALSE, NoFloat),
      Tok(<<"-", "-", "1">>, FALSE, NoFloat) }

BaseTokens == { t \in NumericTokens : t.s \in {<<"1">>, <<"-", "3">>} }

TokenCounts ==
    (1..MaxFew) \cup
    ((NUM_PRECOS_OBRIGATORIOS - MaxOff)..(NUM_PRECOS_OBRIGATORIOS + MaxOff))

Positions(n) == {1, (n + 1) \div 2, n}

\* n tokens, all base except odd at position pos
TokenList(n, base, pos, odd) == [i \in 1..n |-> IF i = pos THEN odd ELSE base]

TokenLists ==
    UNION { { TokenList(n, b, p, o) : b \in BaseTokens, p \in Positions(n),
                                      o \in NumericTokens \cup BadTokens }
            : n \in TokenCounts }

RECURSIVE Join(_)
\* ",".join of the tokens' strings
Join(ts) ==
    IF Len(ts) = 0 THEN <<>>
    ELSE IF Len(ts) = 1 THEN ts[1].s
    ELSE LET h == Len(ts) \div 2
         IN  Join(SubSeq(ts, 1, h)) \o <<",">> \o Join(SubSeq(ts, h + 1, Len(ts)))

-----------------------------------------------------------------------------
(* JSON values as Python sees them after response.json().  Every value is   *)
(* [t, s, o]: t the type, s the text of a scalar, o the members of an       *)
(* object (by key) or of a list (by index).                                 *)

NoMembers == [k \in {} |-> ""]
JNull == [t |-> "null", s |-> "null", o |-> NoMembers]
JBool(b) == [t |-> "bool", s |-> b, o |-> NoMembers]
JNum(n) == [t |-> "num", s |-> n, o |-> NoMembers]
JStr(x) == [t |-> "str", s |-> x, o |-> NoMembers]
JList(o) == [t |-> "list", s |-> "", o |-> o]
JObj(o) == [t |-> "obj", s |-> "", o |-> o]

Obj1(k, v) == JObj([x \in {k} |-> v])
Obj2(k1, v1, k2, v2) == JObj([x \in {k1, k2} |-> IF x = k1 THEN v1 ELSE v2])

\* bool(v)
py_truthy(v) ==
    CASE v.t = "null" -> FALSE
      [] v.t = "bool" -> v.s = "true"
      [] v.t = "num" -> v.s # "0"
      [] v.t = "str" -> v.s # ""
      [] v.t \in {"list", "obj"} -> DOMAIN v.o # {}

\* `k in v` for a non-empty string k: a key of a dict, an element of a list, a
\* substring of a str (the strings of the model contain k only when they are
\* k); a number or a bool is not iterable (TypeError: ok = FALSE)
py_in(k, v) ==
    CASE v.t = "obj" -> [ok |-> TRUE, res |-> k \in DOMAIN v.o]
      [] v.t = "list" -> [ok |-> TRUE, res |-> \E i \in DOMAIN v.o : v.o[i] = JStr(k)]
      [] v.t = "str" -> [ok |-> TRUE, res |-> v.s = k]
      [] OTHER -> [ok |-> FALSE, res |-> FALSE]

\* hash(v) succeeds: lists and dicts are unhashable
py_hashable(v) == v.t \notin {"list", "obj"}

\* format(v, ".2f") succeeds: numbers and bools only
py_format_2f_ok(v) == v.t \in {"num", "bool"}

StatusValues ==
    { JStr("pending"), JStr("running"), JStr("completed"), JStr("failed"),
      JStr("weird"), JNull, JList(NoMembers) }
JobIds == {"job1", "job2"}
PriceValues == { JNum("101.5"), JStr("abc"), JNull }

Bodies ==
    { JNull, JBool("false"), JBool("true"), JNum("0"), JNum("5"),
      JStr(""), JStr("job_id"), JStr("predicted_price"),
      JList(NoMembers), JList([i \in {"0"} |-> JStr("job_id")]),
      JList([i \in {"0"} |-> JStr("predicted_price")]),
      JObj(NoMembers), Obj1("message", JStr("ok")), Obj1("symbol", JStr("AAPL")),
      Obj2("predicted_price", JNum("101.5"), "symbol", JStr("AAPL")) }
    \cup { Obj1("status", v) : v \in StatusValues }
    \cup { Obj1("job_id", JStr(j)) : j \in JobIds }
    \cup { Obj2("job_id", JStr(j), "status", JStr("pending")) : j \in JobIds }
    \cup { Obj1("predicted_price", v) : v \in PriceValues }

-----------------------------------------------------------------------------
(* The remote service: what requests.get / requests.post can do *)

Http(status, body) == [kind |-> "http", status |-> status, body |-> body, exc |-> ""]
Transport(exc) == [kind |-> "exc", status |-> 0, body |-> JNull, exc |-> exc]
NoResp == [kind |-> "none", status |-> 0, body |-> JNull, exc |-> ""]

Responses ==
    { Http(200, b) : b \in Bodies }
    \cup { Http(404, Obj1("detail", JStr("Not Found"))), Http(500, JNull) }
    \cup { Transport(e) : e \in {"Timeout", "ConnectionError"} }

NoPayload == [k \in {} |-> ""]
Request(method, url, path, timeout, payload) ==
    [method |-> method, url |-> url, path |-> path, timeout |-> timeout,
     payload |-> payload]

\* response.json(): JSON null decodes to Python None
decoded(body) == IF body.t = "null" THEN None ELSE Some(body)

-----------------------------------------------------------------------------
(* Dates *)

Date(y, m, d) == [y |-> y, m |-> m, d |-> d]
NoDate == Date(0, 0, 0)    \* None: the date_input left empty

DigitStr(n) ==
    CASE n = 0 -> "0" [] n = 1 -> "1" [] n = 2 -> "2" [] n = 3 -> "3"
      [] n = 4 -> "4" [] n = 5 -> "5" [] n = 6 -> "6" [] n = 7 -> "7"
      [] n = 8 -> "8" [] n = 9 -> "9"

RECURSIVE NatStr(_)
NatStr(n) == IF n < 10 THEN DigitStr(n) ELSE NatStr(n \div 10) \o DigitStr(n % 10)

Pad2(n) == IF n < 10 THEN "0" \o DigitStr(n) ELSE NatStr(n)

\* date.strftime("%Y-%m-%d") for a four-digit year
strftime(d) == NatStr(d.y) \o "-" \o Pad2(d.m) \o "-" \o Pad2(d.d)

StartDates == { Date(2024, 1, 5) }
EndDates == { Date(2024, 12, 31) }

-----------------------------------------------------------------------------
(* Remote gateway *)

consultar_status_treinamento(job_id, r) ==
    LET fn == "consultar_status_treinamento"
        req == Request("GET", STATUS_ENDPOINT, job_id, 10, NoPayload)
    IN  IF r.kind = "http"
        THEN IF r.status = 200
             THEN [ret |-> decoded(r.body), msgs |-> <<>>, reqs |-> <<req>>]
             ELSE [ret |-> None,
                   msgs |-> <<Msg(fn, "warning", "Status HTTP", <<r.status>>)>>,
                   reqs |-> <<req>>]
        ELSE [ret |-> None,
              msgs |-> <<Msg(fn, "error", "Erro ao conectar com a API", <<r.exc>>)>>,
              reqs |-> <<req>>]

iniciar_treinamento(payload, r) ==
    LET fn == "iniciar_treinamento"
        req == Request("POST", TRAIN_ENDPOINT, "", 30, payload)
    IN  IF r.kind = "http"
        THEN IF r.status = 200
             THEN [ret |-> decoded(r.body), msgs |-> <<>>, reqs |-> <<req>>]
             ELSE [ret |-> None,
                   msgs |-> <<Msg(fn, "warning", "Status HTTP", <<r.status>>)>>,
                   reqs |-> <<req>>]
        ELSE [ret |-> None,
              msgs |-> <<Msg(fn, "error", "Erro ao conectar com a API", <<r.exc>>)>>,
              reqs |-> <<req>>]

\* Faulty variants of fazer_previsao: the status code is not looked at,
fazer_previsao_sem_checar_status(payload, r) ==
    LET fn == "fazer_previsao"
        req == Request("POST", PREDICT_ENDPOINT, "", 30, payload)
    IN  IF r.kind = "http"
        THEN [ret |-> decoded(r.body), msgs |-> <<>>, reqs |-> <<req>>]
        ELSE [ret |-> None,
              msgs |-> <<Msg(fn, "error", "Erro ao conectar com a API", <<r.exc>>)>>,
              reqs |-> <<req>>]

\* a failed request is sent a second time.
fazer_previsao_com_retry(payload, r) ==
    LET fn == "fazer_previsao"
        req == Request("POST", PREDICT_ENDPOINT, "", 30, payload)
    IN  IF r.kind = "http"
        THEN IF r.status = 200
             THEN [ret |-> decoded(r.body), msgs |-> <<>>, reqs |-> <<req>>]
             ELSE [ret |-> None,
                   msgs |-> <<Msg(fn, "warning", "Status HTTP", <<r.status>>)>>,
                   reqs |-> <<req, req>>]
        ELSE [ret |-> None,
              msgs |-> <<Msg(fn, "error", "Erro ao conectar com a API", <<r.exc>>)>>,
              reqs |-> <<req, req>>]

fazer_previsao(payload, r) ==
    LET fn == "fazer_previsao"
        req == Request("POST", PREDICT_ENDPOINT, "", 30, payload)
    IN  IF r.kind = "http"
        THEN IF r.status = 200
             THEN [ret |-> decoded(r.body), msgs |-> <<>>, reqs |-> <<req>>]
             ELSE [ret |-> None,
                   msgs |-> <<Msg(fn, "warning", "Status HTTP", <<r.status>>)>>,
                   reqs |-> <<req>>]
        ELSE [ret |-> None,
              msgs |-> <<Msg(fn, "error", "Erro ao conectar com a API", <<r.exc>>)>>,
              reqs |-> <<req>>]

\* `if data:` on an Optional[Dict]
opt_truthy(x) == ~x.isNone /\ py_truthy(x.val)

-----------------------------------------------------------------------------
(* Status section *)

STATUS_MAP ==
    [k \in {"pending", "running", "completed", "failed"} |->
        CASE k = "pending" -> [msg |-> "Treinamento em fila", tipo |-> "warning"]
          [] k = "running" -> [msg |-> "Treinamento em andamento", tipo |-> "info"]
          [] k = "completed" -> [msg |-> "Treinamento finalizado", tipo |-> "success"]
          [] k = "failed" -> [msg |-> "Treinamento falhou", tipo |-> "error"]]

\* what a section hands back to main: its output calls, the requests it sent,
\* the gateway's return value (called = FALSE when no gateway function ran)
\* and the exception that left it ("" if none)
Section(msgs, reqs, called, ret, exc) ==
    [msgs |-> msgs, reqs |-> reqs, called |-> called, ret |-> ret, raised |-> exc]
Quiet == Section(<<>>, <<>>, FALSE, None, "")

\* session_state.get("job_id", "") as the text_input shows it
job_id_prefill(session) == IF session.isNone THEN "" ELSE session.val.s

renderizar_status_treinamento(click, input, r) ==
    LET fn == "renderizar_status_treinamento"
    IN  IF click # "btn_status" THEN Quiet
        ELSE IF input = ""
        THEN Section(<<Msg(fn, "warning", "Informe um Job ID para consultar o status.", <<>>)>>,
                     <<>>, FALSE, None, "")
        ELSE
          LET g == consultar_status_treinamento(input, r)
          IN  IF ~opt_truthy(g.ret)
              THEN Section(g.msgs \o <<Msg(fn, "error", "Erro ao consultar status", <<>>)>>,
                           g.reqs, TRUE, g.ret, "")
              ELSE
                LET d == g.ret.val
                    \* data.get("status")
                    status_value == IF "status" \in DOMAIN d.o THEN d.o["status"] ELSE JNull
                    json == Msg(fn, "json", "", <<d>>)
                IN  IF d.t # "obj"
                    THEN Section(g.msgs, g.reqs, TRUE, g.ret, "AttributeError")
                    ELSE IF ~py_hashable(status_value)
                    THEN Section(g.msgs, g.reqs, TRUE, g.ret, "TypeError")
                    ELSE IF status_value.t = "str" /\ status_value.s \in DOMAIN STATUS_MAP
                    THEN Section(g.msgs \o <<Msg(fn, STATUS_MAP[status_value.s].tipo,
                                                 STATUS_MAP[status_value.s].msg, <<>>), json>>,
                                 g.reqs, TRUE, g.ret, "")
                    ELSE Section(g.msgs \o <<Msg(fn, "write", "Status desconhecido", <<>>), json>>,
                                 g.reqs, TRUE, g.ret, "")

-----------------------------------------------------------------------------
(* Training section *)

TrainFields == {"symbol", "start_date", "end_date", "epochs", "batch_size", "learning_rate"}

\* the form left at its defaults, with the dates picked as below
payload_treinamento ==
    [k \in TrainFields |->
        CASE k = "symbol" -> "AAPL"
          [] k = "start_date" -> strftime(Date(2024, 1, 5))
          [] k = "end_date" -> strftime(Date(2024, 12, 31))
          [] k = "epochs" -> 50
          [] k = "batch_size" -> 64
          [] k = "learning_rate" -> "0.001"]

\* Faulty variant of salvar_job_id: the first job_id is kept (setdefault).
salvar_job_id_se_ausente(session, d) ==
    IF session.isNone THEN Some(d.o["job_id"]) ELSE session

\* st.session_state["job_id"] = data["job_id"], data being a dict with the key
salvar_job_id(session, d) == Some(d.o["job_id"])

renderizar_secao_treinamento(click, session, r) ==
    LET fn == "renderizar_secao_treinamento"
    IN  IF click # "train_model" THEN [sec |-> Quiet, session |-> session]
        ELSE
          LET g == iniciar_treinamento(payload_treinamento, r)
              sent == <<Msg(fn, "json", "Payload enviado", <<>>)>>
          IN  IF ~opt_truthy(g.ret)
              THEN [sec |-> Section(sent \o g.msgs
                                      \o <<Msg(fn, "error", "Erro ao iniciar treinamento", <<>>)>>,
                                    g.reqs, TRUE, g.ret, ""),
                    session |-> session]
              ELSE
                LET d == g.ret.val
                    ok == sent \o g.msgs
                            \o <<Msg(fn, "success", "Treinamento iniciado em background!", <<>>),
                                 Msg(fn, "json", "", <<d>>)>>
                    has == py_in("job_id", d)
                IN  IF ~has.ok
                    THEN [sec |-> Section(ok, g.reqs, TRUE, g.ret, "TypeError"),
                          session |-> session]
                    ELSE IF ~has.res
                    THEN [sec |-> Section(ok, g.reqs, TRUE, g.ret, ""), session |-> session]
                    ELSE IF d.t # "obj"
                    \* data["job_id"] on a str or a list
                    THEN [sec |-> Section(ok, g.reqs, TRUE, g.ret, "TypeError"),
                          session |-> session]
                    ELSE [sec |-> Section(ok \o <<Msg(fn, "info", "Job ID salvo", <<d.o["job_id"]>>)>>,
                                          g.reqs, TRUE, g.ret, ""),
                          session |-> salvar_job_id(session, d)]

-----------------------------------------------------------------------------
(* Prediction section *)

PredictFields(start, end) ==
    {"symbol"} \cup (IF start # NoDate THEN {"start_date"} ELSE {})
               \cup (IF end # NoDate THEN {"end_date"} ELSE {})

NaoValidado == [called |-> FALSE, ret |-> None]

\* Faulty variant of montar_payload: the manual payload keeps a symbol key.
montar_payload_com_symbol(op, start, end, text) ==
    IF op = MODO_AUTO
    THEN [payload |-> Some([k \in PredictFields(start, end) |->
                               CASE k = "symbol" -> "AAPL"
                                 [] k = "start_date" -> strftime(start)
                                 [] k = "end_date" -> strftime(end)]),
          validado |-> NaoValidado, msgs |-> <<>>]
    ELSE IF text = <<>>
    THEN [payload |-> None, validado |-> NaoValidado, msgs |-> <<>>]
    ELSE
      LET v == validar_precos_manuais(text)
      IN  IF v.ret.isNone \/ v.ret.val = <<>>
          THEN [payload |-> None, validado |-> [called |-> TRUE, ret |-> v.ret],
                msgs |-> v.msgs]
          ELSE [payload |-> Some([k \in {"symbol", "last_60_days_prices"} |->
                                     IF k = "symbol" THEN <<>> ELSE v.ret.val]),
                validado |-> [called |-> TRUE, ret |-> v.ret],
                msgs |-> v.msgs \o <<Msg("renderizar_secao_previsao", "success",
                                         "N precos validados com sucesso!",
                                         <<Len(v.ret.val)>>)>>]

\* lines 341-389: the payload of the current widgets, built on every run
montar_payload(op, start, end, text) ==
    IF op = MODO_AUTO
    THEN [payload |-> Some([k \in PredictFields(start, end) |->
                               CASE k = "symbol" -> "AAPL"
                                 [] k = "start_date" -> strftime(start)
                                 [] k = "end_date" -> strftime(end)]),
          validado |-> NaoValidado, msgs |-> <<>>]
    ELSE IF text = <<>>
    THEN [payload |-> None, validado |-> NaoValidado, msgs |-> <<>>]
    ELSE
      LET v == validar_precos_manuais(text)
      IN  IF v.ret.isNone \/ v.ret.val = <<>>
          THEN [payload |-> None, validado |-> [called |-> TRUE, ret |-> v.ret],
                msgs |-> v.msgs]
          ELSE [payload |-> Some([k \in {"last_60_days_prices"} |-> v.ret.val]),
                validado |-> [called |-> TRUE, ret |-> v.ret],
                msgs |-> v.msgs \o <<Msg("renderizar_secao_previsao", "success",
                                         "N precos validados com sucesso!",
                                         <<Len(v.ret.val)>>)>>]

\* lines 391-418, b being what lines 341-389 built in this run
renderizar_secao_previsao(click, b, r) ==
    LET fn == "renderizar_secao_previsao"
    IN  IF click # "btn_predict"
        THEN [sec |-> Section(b.msgs, <<>>, FALSE, None, ""), validado |-> b.validado]
        ELSE IF b.payload.isNone
        THEN [sec |-> Section(b.msgs \o <<Msg(fn, "warning",
                                              "Preencha corretamente os dados para previsao.",
                                              <<>>)>>,
                              <<>>, FALSE, None, ""),
              validado |-> b.validado]
        ELSE
          LET g == fazer_previsao(b.payload.val, r)
          IN  IF ~opt_truthy(g.ret)
              THEN [sec |-> Section(b.msgs \o g.msgs
                                      \o <<Msg(fn, "error", "Erro ao realizar previsao", <<>>)>>,
                                    g.reqs, TRUE, g.ret, ""),
                    validado |-> b.validado]
              ELSE
                LET result == g.ret.val
                    ok == b.msgs \o g.msgs
                            \o <<Msg(fn, "success", "Previsao realizada com sucesso!", <<>>)>>
                    has == py_in("predicted_price", result)
                    json == Msg(fn, "json", "Resposta completa da API", <<result>>)
                IN  IF ~has.ok
                    THEN [sec |-> Section(ok, g.reqs, TRUE, g.ret, "TypeError"),
                          validado |-> b.validado]
                    ELSE IF ~has.res
                    THEN [sec |-> Section(ok \o <<json>>, g.reqs, TRUE, g.ret, ""),
                          validado |-> b.validado]
                    ELSE IF result.t # "obj"
                    \* result["predicted_price"] on a str or a list
                    THEN [sec |-> Section(ok, g.reqs, TRUE, g.ret, "TypeError"),
                          validado |-> b.validado]
                    ELSE IF ~py_format_2f_ok(result.o["predicted_price"])
                    \* f"{...:.2f}" of a str is a ValueError, of None a TypeError
                    THEN [sec |-> Section(ok, g.reqs, TRUE, g.ret,
                                          IF result.o["predicted_price"].t = "str"
                                          THEN "ValueError" ELSE "TypeError"),
                          validado |-> b.validado]
                    ELSE
                      LET price == <<Msg(fn, "metric", "Preco previsto",
                                         <<result.o["predicted_price"]>>)>>
                          ativo == IF "symbol" \in DOMAIN result.o
                                   THEN <<Msg(fn, "metric", "Ativo", <<result.o["symbol"]>>)>>
                                   ELSE <<>>
                      IN  [sec |-> Section(ok \o price \o ativo \o <<json>>,
                                           g.reqs, TRUE, g.ret, ""),
                           validado |-> b.validado]

-----------------------------------------------------------------------------
(* main: the sections in order; an exception ends the run where it is raised. *)
(* b is montar_payload of the widgets of this run.                            *)

main(click, input, b, session, r) ==
    LET Compose(st, tr, pr) ==
            IF st.raised # ""
            THEN [rendered |-> st.msgs, reqs |-> st.reqs, raised |-> st.raised,
                  data |-> [called |-> st.called, ret |-> st.ret],
                  session |-> session, validado |-> NaoValidado]
            ELSE IF tr.sec.raised # ""
            THEN [rendered |-> st.msgs \o tr.sec.msgs, reqs |-> st.reqs \o tr.sec.reqs,
                  raised |-> tr.sec.raised,
                  data |-> IF st.called THEN [called |-> TRUE, ret |-> st.ret]
                           ELSE [called |-> tr.sec.called, ret |-> tr.sec.ret],
                  session |-> tr.session, validado |-> NaoValidado]
            ELSE [rendered |-> st.msgs \o tr.sec.msgs \o pr.sec.msgs,
                  reqs |-> st.reqs \o tr.sec.reqs \o pr.sec.reqs,
                  raised |-> pr.sec.raised,
                  data |-> IF st.called THEN [called |-> TRUE, ret |-> st.ret]
                           ELSE IF tr.sec.called THEN [called |-> TRUE, ret |-> tr.sec.ret]
                           ELSE [called |-> pr.sec.called, ret |-> pr.sec.ret],
                  session |-> tr.session, validado |-> pr.validado]
    IN  CHOOSE out \in
          { Compose(st, tr, pr) :
              st \in {renderizar_status_treinamento(click, input, r)},
              tr \in {renderizar_secao_treinamento(click, session, r)},
              pr \in {renderizar_secao_previsao(click, b, r)} } : TRUE

-----------------------------------------------------------------------------
(* What the user can do *)

TypedJobIds == {"", "job1", "x"}

\* texts typed into the text_area: a single token (numeric, empty or not
\* numeric), about sixty numeric tokens, and sixty tokens one of which is not
\* numeric
UITokenLists ==
    LET one == CHOOSE b \in BaseTokens : b.s = <<"1">>
        num == CHOOSE t \in NumericTokens : t.s = <<" ", "2", ".", "5", "0">>
        bad == CHOOSE t \in BadTokens : t.s = <<"a", "b", "c">>
    IN  { <<t>> : t \in {num, bad, CHOOSE t \in BadTokens : t.s = <<>>} }
        \cup { TokenList(n, one, 1, num) :
                 n \in (NUM_PRECOS_OBRIGATORIOS - MaxOff)..(NUM_PRECOS_OBRIGATORIOS + MaxOff) }
        \cup { TokenList(NUM_PRECOS_OBRIGATORIOS, one, NUM_PRECOS_OBRIGATORIOS, bad) }

ManualInputs == { [tokens |-> tl, text |-> Join(tl)] : tl \in UITokenLists }

\* The text_input is created anew, holding its default, when the default it is
\* given differs from the one of the last run; otherwise it keeps its content.
InputNow(typed) ==
    IF job_id_prefill(session_state) # job_id_default
    THEN job_id_prefill(session_state) ELSE typed

\* a 200 training response that is an object with a job_id member
TrainedJob(click, r) ==
    IF /\ click = "train_model" /\ r.kind = "http" /\ r.status = 200
       /\ r.body.t = "obj" /\ "job_id" \in DOMAIN r.body.o
    THEN Some(r.body.o["job_id"]) ELSE last_trained

\* a response exists only for a request that is sent
ResponsesFor(click, input, b) ==
    IF \/ click = "btn_status" /\ input # ""
       \/ click = "train_model"
       \/ click = "btn_predict" /\ ~b.payload.isNone
    THEN Responses ELSE {NoResp}

\* one run of the script with `click` reading True (or none) and the widgets
\* holding the given values
Rerun(click, typed, op, start, end, text, tl) ==
    \E b \in {montar_payload(op, start, end, text)} :
    \E r \in ResponsesFor(click, InputNow(typed), b) :
    \E m \in {main(click, InputNow(typed), b, session_state, r)} :
        /\ session_state' = m.session
        /\ job_id_default' = job_id_prefill(session_state)
        /\ job_id_input' = InputNow(typed)
        /\ opcao' = op
        /\ start_date_pred' = start
        /\ end_date_pred' = end
        /\ prices_text' = text
        /\ tokens' = tl
        /\ clicked' = click
        /\ resp' = r
        /\ requests_sent' = m.reqs
        /\ data' = m.data
        /\ validado' = m.validado
        /\ rendered' = m.rendered
        /\ raised' = m.raised
        /\ last_trained' = TrainedJob(click, r)

EditJobId ==
    \E v \in TypedJobIds :
        Rerun("none", v, opcao, start_date_pred, end_date_pred, prices_text, tokens)

EditAutomatica ==
    \E start \in {NoDate} \cup StartDates, end \in {NoDate} \cup EndDates :
        Rerun("none", job_id_input, MODO_AUTO, start, end, <<>>, <<>>)

EditManual ==
    \E i \in ManualInputs :
        Rerun("none", job_id_input, MODO_MANUAL, NoDate, NoDate, i.text, i.tokens)

ClickStatus ==
    Rerun("btn_status", job_id_input, opcao, start_date_pred, end_date_pred,
          prices_text, tokens)

ClickTrain ==
    Rerun("train_model", job_id_input, opcao, start_date_pred, end_date_pred,
          prices_text, tokens)

ClickPredict ==
    Rerun("btn_predict", job_id_input, opcao, start_date_pred, end_date_pred,
          prices_text, tokens)

Init ==
    /\ session_state = None
    /\ job_id_default = ""
    /\ job_id_input = ""
    /\ opcao = MODO_AUTO
    /\ start_date_pred = NoDate
    /\ end_date_pred = NoDate
    /\ prices_text = <<>>
    /\ tokens = <<>>
    /\ clicked = "none"
    /\ resp = NoResp
    /\ requests_sent = <<>>
    /\ data = [called |-> FALSE, ret |-> None]
    /\ validado = NaoValidado
    /\ rendered = <<>>
    /\ raised = ""
    /\ last_trained = None

Next ==
    \/ EditJobId
    \/ EditAutomatica
    \/ EditManual
    \/ ClickStatus
    \/ ClickTrain
    \/ ClickPredict

Spec == Init /\ [][Next]_vars

-----------------------------------------------------------------------------
(* validar_precos_manuais on its own, on every text of TokenLists *)

InitV ==
    /\ tokens \in TokenLists
    /\ prices_text = Join(tokens)
    /\ session_state = None
    /\ job_id_default = ""
    /\ job_id_input = ""
    /\ opcao = MODO_MANUAL
    /\ start_date_pred = NoDate
    /\ end_date_pred = NoDate
    /\ clicked = "none"
    /\ resp = NoResp
    /\ requests_sent = <<>>
    /\ data = [called |-> FALSE, ret |-> None]
    /\ validado = NaoValidado
    /\ rendered = <<>>
    /\ raised = ""
    /\ last_trained = None

Validar ==
    /\ ~validado.called
    /\ validado' = [called |-> TRUE, ret |-> validar_precos_manuais(prices_text).ret]
    /\ rendered' = validar_precos_manuais(prices_text).msgs
    /\ UNCHANGED <<session_state, job_id_default, job_id_input, opcao, start_date_pred,
                   end_date_pred, prices_text, tokens, clicked, resp, requests_sent,
                   data, raised, last_trained>>

NextV == Validar

SpecV == InitV /\ [][NextV]_vars

-----------------------------------------------------------------------------
(* Properties of validar_precos_manuais, under SpecV.  The expected floats   *)
(* are those listed with the tokens, not those float computes.               *)

AllNumeric == \A i \in 1..Len(tokens) : tokens[i].ok
ExpectedPrices == [i \in 1..Len(tokens) |-> tokens[i].val]

NumericError == "Todos os valores devem ser numericos."
CountError == "E necessario informar exatamente N valores. Voce forneceu M."

\* C1: a text of exactly 60 tokens that all parse as floats is returned as the
\* list of those 60 floats, in the order typed, and no error is emitted.
C1_SixtyFloatsReturnedInOrder ==
    (validado.called /\ AllNumeric /\ Len(tokens) = NUM_PRECOS_OBRIGATORIOS)
        => /\ ~validado.ret.isNone
           /\ validado.ret.val = ExpectedPrices
           /\ rendered = <<>>

\* a validated text of 60 numeric tokens whose first and last value differ
C1_Witness ==
    /\ validado.called /\ AllNumeric /\ Len(tokens) = NUM_PRECOS_OBRIGATORIOS
    /\ tokens[1].val # tokens[NUM_PRECOS_OBRIGATORIOS].val
    /\ validado.ret.val = ExpectedPrices

\* C2: a text whose tokens all parse as floats but number n # 60 is rejected
\* (None) with exactly one error, which names 60 and n.
C2_WrongCountRejectedWithBothCounts ==
    (validado.called /\ AllNumeric /\ Len(tokens) # NUM_PRECOS_OBRIGATORIOS)
        => /\ validado.ret.isNone
           /\ Len(rendered) = 1
           /\ rendered[1].tipo = "error"
           /\ rendered[1].msg = CountError
           /\ rendered[1].args = <<NUM_PRECOS_OBRIGATORIOS, Len(tokens)>>

\* a validated text of more than 60 numeric tokens, rejected
C2_Witness ==
    /\ validado.called /\ AllNumeric /\ Len(tokens) > NUM_PRECOS_OBRIGATORIOS
    /\ validado.ret.isNone

\* C3: a text with at least one token that is no float (an empty one included)
\* is rejected (None) with the one generic numeric error and no count error,
\* whether it has 60 tokens or not.
C3_NonNumericRejectedWithGenericError ==
    (validado.called /\ ~AllNumeric)
        => /\ validado.ret.isNone
           /\ Len(rendered) = 1
           /\ rendered[1].tipo = "error"
           /\ rendered[1].msg = NumericError

\* a validated text with a non-numeric token and a token count other than 60
C3_Witness ==
    /\ validado.called /\ ~AllNumeric /\ Len(tokens) # NUM_PRECOS_OBRIGATORIOS
    /\ validado.ret.isNone

\* the empty text, validated: its one token is empty
C3_WitnessEmptyText ==
    /\ validado.called /\ prices_text = <<>> /\ validado.ret.isNone

-----------------------------------------------------------------------------
(* Properties of the application, under Spec *)

Buttons == {"btn_status", "train_model", "btn_predict"}

GatewayOf(button) ==
    CASE button = "btn_status" -> "consultar_status_treinamento"
      [] button = "train_model" -> "iniciar_treinamento"
      [] button = "btn_predict" -> "fazer_previsao"

HandlerOf(button) ==
    CASE button = "btn_status" -> "renderizar_status_treinamento"
      [] button = "train_model" -> "renderizar_secao_treinamento"
      [] button = "btn_predict" -> "renderizar_secao_previsao"

FailureMessageOf(button) ==
    CASE button = "btn_status" -> "Erro ao consultar status"
      [] button = "train_model" -> "Erro ao iniciar treinamento"
      [] button = "btn_predict" -> "Erro ao realizar previsao"

EndpointOf(button) ==
    CASE button = "btn_status" -> STATUS_ENDPOINT
      [] button = "train_model" -> TRAIN_ENDPOINT
      [] button = "btn_predict" -> PREDICT_ENDPOINT

\* the last run sent a request that the remote end failed
RemoteFailure == resp.kind = "exc" \/ (resp.kind = "http" /\ resp.status # 200)
RemoteOk == resp.kind = "http" /\ resp.status = 200

RenderedBy(fn) == {i \in 1..Len(rendered) : rendered[i].fn = fn}

\* the handler of the clicked button rendered its failure message
FailureBranch ==
    /\ clicked \in Buttons
    /\ \E i \in RenderedBy(HandlerOf(clicked)) :
          rendered[i].tipo = "error" /\ rendered[i].msg = FailureMessageOf(clicked)

\* C4: when the remote end answers a request with a non-200 status or the call
\* fails in transport, the gateway function returns None after exactly one
\* message of its own (a warning for a status, an error for a transport
\* failure), and what the calling handler renders after it is its failure
\* message and nothing else; no exception is raised.
C4_RemoteFailureGivesNoneAndFailureMessage ==
    (clicked \in Buttons /\ RemoteFailure)
        => /\ data.called /\ data.ret.isNone
           /\ raised = ""
           /\ Cardinality(RenderedBy(GatewayOf(clicked))) = 1
           /\ \A g \in RenderedBy(GatewayOf(clicked)) :
                /\ rendered[g].tipo = IF resp.kind = "http" THEN "warning" ELSE "error"
                /\ \E f \in RenderedBy(HandlerOf(clicked)) :
                     /\ f = g + 1
                     /\ rendered[f].tipo = "error"
                     /\ rendered[f].msg = FailureMessageOf(clicked)
                     /\ \A h \in RenderedBy(HandlerOf(clicked)) : h > g => h = f

\* a prediction request answered with a non-200 status
C4_Witness ==
    /\ clicked = "btn_predict" /\ resp.kind = "http" /\ resp.status # 200
    /\ data.called /\ data.ret.isNone /\ FailureBranch

\* C5 as stated, for the JSON objects a 200 response can carry: the handler
\* takes its failure branch only when the gateway returned None, so a 200
\* response with an object is never rendered as a failure.
C5_FailureBranchOnlyOnNone ==
    (clicked \in Buttons /\ RemoteOk /\ resp.body.t = "obj")
        => /\ ~FailureBranch
           /\ FailureBranch => data.ret.isNone

\* C6 as stated: no run ends with an exception leaving the handler.
C6_NoExceptionPropagates == raised = ""

JsonShown(button) ==
    \E i \in RenderedBy(HandlerOf(button)) :
        /\ rendered[i].tipo = "json"
        /\ rendered[i].msg = ""
        /\ rendered[i].args = <<resp.body>>

\* C7 as stated: for every object the status endpoint returns with a 200, the
\* status member is rendered through STATUS_MAP, or as "Status desconhecido"
\* when it is missing or not in the table, and the raw JSON is shown as well.
C7_StatusRenderedAndJsonShown ==
    (clicked = "btn_status" /\ RemoteOk /\ resp.body.t = "obj")
        => /\ JsonShown("btn_status")
           /\ LET o == resp.body.o
                  known == /\ "status" \in DOMAIN o
                           /\ o["status"].t = "str"
                           /\ o["status"].s \in {"pending", "running", "completed", "failed"}
                  first == CHOOSE i \in RenderedBy(HandlerOf("btn_status")) :
                             \A j \in RenderedBy(HandlerOf("btn_status")) : i <= j
              IN  IF known
                  THEN /\ rendered[first].tipo =
                            (CASE o["status"].s = "pending" -> "warning"
                               [] o["status"].s = "running" -> "info"
                               [] o["status"].s = "completed" -> "success"
                               [] o["status"].s = "failed" -> "error")
                       /\ (o["status"].s = "completed"
                             => rendered[first].msg = "Treinamento finalizado")
                  ELSE /\ rendered[first].tipo = "write"
                       /\ rendered[first].msg = "Status desconhecido"

PredictRequests ==
    {i \in 1..Len(requests_sent) : requests_sent[i].url = PREDICT_ENDPOINT}

\* the ISO text of the dates of the model, written out
IsoText(d) ==
    CASE d = Date(2024, 1, 5) -> "2024-01-05"
      [] d = Date(2024, 12, 31) -> "2024-12-31"

\* C8: a payload passed to fazer_previsao has one of two shapes, by the mode:
\* symbol, with start_date / end_date exactly for the dates supplied, and no
\* last_60_days_prices; or last_60_days_prices alone, holding the 60 floats
\* that validar_precos_manuais returned for the text.  Never both keys.
C8_PayloadHasOneOfTwoShapes ==
    \A i \in PredictRequests :
        LET p == requests_sent[i].payload
        IN  /\ ~({"symbol", "last_60_days_prices"} \subseteq DOMAIN p)
            /\ opcao = MODO_AUTO =>
                 /\ DOMAIN p = {"symbol"}
                       \cup (IF start_date_pred # NoDate THEN {"start_date"} ELSE {})
                       \cup (IF end_date_pred # NoDate THEN {"end_date"} ELSE {})
                 /\ start_date_pred # NoDate => p["start_date"] = IsoText(start_date_pred)
                 /\ end_date_pred # NoDate => p["end_date"] = IsoText(end_date_pred)
            /\ opcao = MODO_MANUAL =>
                 /\ DOMAIN p = {"last_60_days_prices"}
                 /\ Len(p["last_60_days_prices"]) = NUM_PRECOS_OBRIGATORIOS
                 /\ validado.called /\ ~validado.ret.isNone
                 /\ p["last_60_days_prices"] = validado.ret.val
                 /\ AllNumeric /\ p["last_60_days_prices"] = ExpectedPrices

\* a manual payload of 60 prices was sent
C8_Witness ==
    /\ clicked = "btn_predict" /\ opcao = MODO_MANUAL
    /\ \E i \in PredictRequests :
          DOMAIN requests_sent[i].payload = {"last_60_days_prices"}

\* an automatic payload with a start date and no end date was sent
C8_WitnessAutomatic ==
    /\ clicked = "btn_predict" /\ opcao = MODO_AUTO
    /\ start_date_pred # NoDate /\ end_date_pred = NoDate
    /\ \E i \in PredictRequests :
          DOMAIN requests_sent[i].payload = {"symbol", "start_date"}

\* C9: the session's job_id is the job_id member of the latest 200 training
\* response that had one, and is absent when there was none: status lookups,
\* predictions, failed trainings and training responses without job_id leave
\* it as it was.
C9_SessionJobIdIsLatestTrained == session_state = last_trained

\* a status lookup answered with another job's id, after a training saved one
C9_Witness ==
    /\ clicked = "btn_status" /\ RemoteOk /\ resp.body.t = "obj"
    /\ "job_id" \in DOMAIN resp.body.o
    /\ ~session_state.isNone
    /\ session_state.val # resp.body.o["job_id"]

\* a training answered 200 without a job_id, after a training saved one
C9_WitnessTrainingWithoutJobId ==
    /\ clicked = "train_model" /\ RemoteOk /\ resp.body.t = "obj"
    /\ "job_id" \notin DOMAIN resp.body.o
    /\ ~session_state.isNone

WarningShown(button, text) ==
    \E i \in RenderedBy(HandlerOf(button)) :
        rendered[i].tipo = "warning" /\ rendered[i].msg = text

\* the prediction widgets hold a payload the section can send
UsablePrediction ==
    \/ opcao = MODO_AUTO
    \/ /\ opcao = MODO_MANUAL /\ prices_text # <<>>
       /\ AllNumeric /\ Len(tokens) = NUM_PRECOS_OBRIGATORIOS

ExactlyOneRequestTo(button) ==
    /\ Len(requests_sent) = 1
    /\ requests_sent[1].url = EndpointOf(button)
    /\ resp # NoResp

\* C10: a run sends at most one request: exactly one, to the button's
\* endpoint, for a click with usable input, whatever the outcome; none, and a
\* warning, for a status click with an empty Job ID or a predict click
\* without a valid payload; none for a run without a click.
C10_OneRequestPerClick ==
    /\ Len(requests_sent) <= 1
    /\ clicked = "none" => requests_sent = <<>>
    /\ clicked = "train_model" => ExactlyOneRequestTo("train_model")
    /\ clicked = "btn_status" =>
         IF job_id_input = ""
         THEN /\ requests_sent = <<>>
              /\ WarningShown("btn_status", "Informe um Job ID para consultar o status.")
         ELSE /\ ExactlyOneRequestTo("btn_status")
              /\ requests_sent[1].path = job_id_input
    /\ clicked = "btn_predict" =>
         IF UsablePrediction
         THEN ExactlyOneRequestTo("btn_predict")
         ELSE /\ requests_sent = <<>>
              /\ WarningShown("btn_predict", "Preencha corretamente os dados para previsao.")

\* a prediction request that failed in transport, sent once
C10_Witness ==
    /\ clicked = "btn_predict" /\ resp.kind = "exc"
    /\ Len(requests_sent) = 1

\* a predict click on a rejected price text: no request, a warning
C10_WitnessRejectedText ==
    /\ clicked = "btn_predict" /\ opcao = MODO_MANUAL /\ prices_text # <<>>
    /\ requests_sent = <<>>
    /\ WarningShown("btn_predict", "Preencha corretamente os dados para previsao.")

====
